---- MODULE Spec2Model ----
(***************************************************************************)
(* Model of ftp-delta-neutral.py: a two-stage batch job.                   *)
(*   stage 1, get_ftp_to_s3:  list the FTP directory, list the S3 bucket,  *)
(*            download every daily zip that is not staged, upload it.      *)
(*   stage 2, unzip_s3_files: list staged zips and published members,      *)
(*            expand every zip that no published member maps back to.      *)
(* Names and keys are Python strings, modelled as sequences of one-        *)
(* character strings so that the slices the code takes are computed.       *)
(* One S3 listing is assumed to return every key of the bucket (the bucket *)
(* holds fewer keys than one list_objects page).                           *)
(***************************************************************************)
EXTENDS Integers, Sequences, FiniteSets, TLC

\* ------------------------------------------------------------------ bounds
\* number of consecutive runs of the script that are explored
MaxRuns == 2
\* longest Python list drawn as an input of the pure functions
MaxList == 2
\* longest <suffix> drawn for the naming transform
MaxSuffix == 3

\* --------------------------------------------------- Python string helpers
Min(a, b) == IF a < b THEN a ELSE b
Max(a, b) == IF a > b THEN a ELSE b

\* a slice bound as Python normalises it for a string of length n
PyBound(i, n) == IF i < 0 THEN Max(n + i, 0) ELSE Min(i, n)

\* s[a:b]
PySlice(s, a, b) ==
    LET lo == PyBound(a, Len(s))
        hi == PyBound(b, Len(s))
    IN  IF lo >= hi THEN << >> ELSE SubSeq(s, lo + 1, hi)

\* s[a:]
PySliceFrom(s, a) ==
    LET lo == PyBound(a, Len(s))
    IN  IF lo >= Len(s) THEN << >> ELSE SubSeq(s, lo + 1, Len(s))

\* s.startswith(p), s.endswith(p)
StartsWith(s, p) == Len(s) >= Len(p) /\ SubSeq(s, 1, Len(p)) = p
EndsWith(s, p) == Len(s) >= Len(p) /\ SubSeq(s, Len(s) - Len(p) + 1, Len(s)) = p

\* s.split(c): the parts of s between the occurrences of the character c
RECURSIVE PySplit(_, _)
PySplit(s, c) ==
    IF \A i \in 1..Len(s) : s[i] # c
    THEN << s >>
    ELSE LET k == CHOOSE i \in 1..Len(s) : s[i] = c /\ \A j \in 1..(i - 1) : s[j] # c
         IN  << SubSeq(s, 1, k - 1) >> \o PySplit(SubSeq(s, k + 1, Len(s)), c)

\* set(list)
ToSet(l) == { l[i] : i \in 1..Len(l) }

\* the lists list(S) can return: every enumeration of S without repetition
PyListOfSet(S) ==
    { q \in [1..Cardinality(S) -> S] : \A i, j \in 1..Cardinality(S) : q[i] = q[j] => i = j }

\* a list holding the elements of S in the order the server reports them
RECURSIVE ListingOf(_)
ListingOf(S) ==
    IF S = {} THEN << >>
    ELSE LET x == CHOOSE y \in S : TRUE IN << x >> \o ListingOf(S \ {x})

\* ------------------------------------------------------------ string data
S_L2 == << "L", "2" >>
S_zip == << "z", "i", "p" >>
S_dotzip == << ".", "z", "i", "p" >>
S_us == << "_" >>
S_options == << "o", "p", "t", "i", "o", "n", "s" >>
S_options_ == << "o", "p", "t", "i", "o", "n", "s", "_" >>
S_csv == << "c", "s", "v" >>
S_txt == << "t", "x", "t" >>
S_slash == "/"
S_old == << "o", "l", "d", "/" >>

\* s3_folder_zip, s3_folder_unzip
s3_folder_zip ==
    << "z", "i", "p", "_", "d", "a", "i", "l", "y", "_", "f", "i", "l", "e", "s", "/" >>
s3_folder_unzip == << "u", "n" >> \o s3_folder_zip

D_20200101 == << "2", "0", "2", "0", "0", "1", "0", "1" >>
D_20200102 == << "2", "0", "2", "0", "0", "1", "0", "2" >>
D_20200115 == << "2", "0", "2", "0", "0", "1", "1", "5" >>
D_20191231 == << "2", "0", "1", "9", "1", "2", "3", "1" >>

\* remote names
F_0101 == S_L2 \o S_us \o D_20200101 \o S_dotzip
F_0102 == S_L2 \o S_us \o D_20200102 \o S_dotzip
F_0115 == S_L2 \o S_us \o D_20200115 \o S_dotzip
F_1231 == S_L2 \o S_us \o D_20191231 \o S_dotzip
F_Jan ==
    S_L2 \o << "_", "2", "0", "2", "0", "_", "J", "a", "n", "u", "a", "r", "y" >> \o S_dotzip
F_readme == << "r", "e", "a", "d", "m", "e", ".", "t", "x", "t" >>
F_short == << "a" >> \o S_dotzip

\* member names
N_0101csv == S_options_ \o D_20200101 \o << "." >> \o S_csv
N_0115 == S_options_ \o D_20200115
N_0115csv == S_options_ \o D_20200115 \o << "." >> \o S_csv
N_a == S_options_ \o << "a", "." >> \o S_txt
N_b == S_options_ \o << "b", "." >> \o S_txt
N_notes == << "n", "o", "t", "e", "s", "." >> \o S_txt

\* ----------------------------------------------- pure functions of the code
\* x[-4:] == '.zip'
IsZip(x) == PySliceFrom(x, -4) = S_dotzip
\* x[7:8] == '_'
IsMonthly(x) == PySlice(x, 7, 8) = S_us
\* mutant: the separator is looked for one character late
IsDaily_Late(x) == PySlice(x, 8, 9) # S_us
\* x[7:8] != '_'
IsDaily(x) == PySlice(x, 7, 8) # S_us

\* [x for x in ls_ftp_contents if x[-4:] == '.zip']
ZipFiles(ls_ftp_contents) == SelectSeq(ls_ftp_contents, IsZip)
\* [x for x in ls_ftp_zip_files if x[7:8] != '_']
DailyFiles(ls_ftp_contents) == SelectSeq(ZipFiles(ls_ftp_contents), IsDaily)
\* [x for x in ls_ftp_zip_files if x[7:8] == '_']
MonthlyFiles(ls_ftp_contents) == SelectSeq(ZipFiles(ls_ftp_contents), IsMonthly)

\* mutant: the operands of the difference exchanged
MissingSet_Swapped(ls_daily, ls_s3) == ToSet(ls_s3) \ ToSet(ls_daily)
\* set(ls_ftp_daily_files) - set(ls_s3_file_names)
MissingSet(ls_daily, ls_s3) == ToSet(ls_daily) \ ToSet(ls_s3)

\* mutant: the prefix is spelled with a dash
IsOptions_Dash(x) == StartsWith(x, S_options \o << "-" >>)
\* x.startswith('options_')
IsOptions(x) == StartsWith(x, S_options_)
\* mutant: the slice starts one character late
ReverseName_Late(x) == S_L2 \o PySlice(x, 8, -3) \o S_zip
\* f'L2{x[7:-3]}zip'
ReverseName(x) == S_L2 \o PySlice(x, 7, -3) \o S_zip
\* mutant: no published name is taken as evidence of an expansion
ConformUnzip_None(ls_unzip) == SubSeq(ls_unzip, 1, 0)
\* ls_conform_unzip
ConformUnzip(ls_unzip) ==
    LET ls_options_unzip == SelectSeq(ls_unzip, IsOptions)
    IN  [ i \in 1..Len(ls_options_unzip) |-> ReverseName(ls_options_unzip[i]) ]
\* mutant: the expanded names are subtracted as they are, not mapped back
PendingSet_NoTransform(ls_zip, ls_unzip) == ToSet(ls_zip) \ ToSet(SelectSeq(ls_unzip, IsOptions))
\* mutant: once anything is published no archive is pending
PendingSet_OnceOnly(ls_zip, ls_unzip) ==
    IF ls_unzip = << >> THEN ToSet(ls_zip) ELSE {}
\* set(ls_s3_zip_daily) - set(ls_conform_unzip)
PendingSet(ls_zip, ls_unzip) == ToSet(ls_zip) \ ToSet(ConformUnzip(ls_unzip))

\* ------------------------------------------------------------ file contents
\* the bytes the remote serves under each name
FtpBytes(name) ==
    CASE name = F_0101 -> "z0101"
      [] name = F_0102 -> "z0102"
      [] name = F_Jan -> "zJan"
      [] name = F_short -> "zEmpty"
      [] name = F_0115 -> "z0115"
      [] OTHER -> "text"

\* zipfile.ZipFile(buffer): the member list of a valid archive, BadZipFile otherwise
ZipFile(bytes) ==
    CASE bytes = "z0101" ->
            [ok |-> TRUE, members |-> << [name |-> N_0101csv, data |-> "c0101"],
                                         [name |-> N_a, data |-> "cx"] >>]
      [] bytes = "z0102" ->
            [ok |-> TRUE, members |-> << [name |-> N_a, data |-> "ca"],
                                         [name |-> N_b, data |-> "cb"] >>]
      [] bytes = "z0115" ->
            [ok |-> TRUE, members |-> << [name |-> N_notes, data |-> "cn"] >>]
      [] bytes = "zEmpty" ->
            [ok |-> TRUE, members |-> << >>]
      [] OTHER -> [ok |-> FALSE, members |-> << >>]

\* the names the remote directory may hold
FtpNames == { F_0101, F_0102, F_Jan, F_readme }

\* objects the bucket may hold before the first run
InitObjects ==
    { << s3_folder_zip, "" >>,
      << s3_folder_zip \o F_0101, "z0101" >>,
      << s3_folder_zip \o F_1231, "junk" >>,
      << s3_folder_zip \o S_old \o F_1231, "junk" >>,
      << s3_folder_unzip \o N_0101csv, "c0101" >> }

\* the names the remote directory may hold when it changes during the runs
EnvNames == { F_0101, F_0102 }

\* objects the bucket may hold, next to the folder object of the staging
\* prefix, before the first run that is disturbed
EnvObjects ==
    { << s3_folder_zip \o F_0101, "z0101" >> }

\* names the remote may list when names of every form are among them
OddNames == { F_short, F_readme, F_Jan, F_0102 }

\* objects the bucket may then hold, next to the folder object: an archive
\* without members and one whose only member is notes.txt
OddObjects ==
    { << s3_folder_zip \o F_1231, "zEmpty" >>,
      << s3_folder_zip \o F_0115, "z0115" >> }

\* ------------------------------------------------------------ object store
\* a store (the bucket, the working directory) is a function from key to bytes
EmptyStore == [ k \in {} |-> "" ]
Put(store, k, v) == [ x \in (DOMAIN store) \cup {k} |-> IF x = k THEN v ELSE store[x] ]
Remove(store, k) == [ x \in (DOMAIN store) \ {k} |-> store[x] ]
StoreOf(pairs) == [ k \in { p[1] : p \in pairs } |-> (CHOOSE p \in pairs : p[1] = k)[2] ]

NotFolder(x) == ~EndsWith(x, << S_slash >>)

\* get_s3_file_names(in_bucket, in_folder) on a bucket b
GetS3FileNames(b, in_folder) ==
    IF DOMAIN b = {}
    THEN \* list_objects answers without 'Contents': resp_s3_objects['Contents'] raises
         [err |-> "KeyError", val |-> << >>]
    ELSE LET ls_s3_object_key == ListingOf(DOMAIN b)
             ls_s3_files == SelectSeq(ls_s3_object_key, NotFolder)
             InFolder(x) == StartsWith(x, in_folder)
             ls_filtered == IF in_folder # << >> THEN SelectSeq(ls_s3_files, InFolder)
                            ELSE ls_s3_files
         IN  IF \E i \in 1..Len(ls_filtered) : Len(PySplit(ls_filtered[i], S_slash)) < 2
             THEN [err |-> "IndexError", val |-> << >>]
             ELSE [err |-> "none",
                   val |-> [ i \in 1..Len(ls_filtered) |->
                                PySplit(ls_filtered[i], S_slash)[2] ]]

\* ------------------------------------------------------------------- state
VARIABLES
    ftp,                 \* names in the remote directory Level2
    bucket,              \* the S3 bucket: key -> bytes
    local,               \* the working directory: file name -> bytes
    pc,                  \* position of the script
    run,                 \* number of the current run
    prevDone,            \* the previous run completed both stages
    prevQuiet,           \* history: the remote did not change during the previous run
    changed,             \* history: the remote has changed since this run started
    killedAt,            \* history: where the last terminated run was, "none" if it ended itself
    prevUploaded,        \* history: keys uploaded by stage 1 in the previous run
    cut,                 \* history: archives whose expansion was cut short, with the run
    late,                \* history: names that appeared after a run's nlst(), with the run
    err,                 \* exception that ended the current run, "none" if none
    ls_ftp_contents,     \* get_ftp_to_s3: the names nlst() returned
    ls_ftp_daily_files,  \* get_ftp_to_s3: daily names of the listing
    ls_s3_file_names,    \* get_ftp_to_s3: names listed under the zip folder
    ls_get_ftp_to_s3,    \* get_ftp_to_s3: the transfer queue
    n1,                  \* get_ftp_to_s3: queue entries fully processed
    ls_diff_unzip,       \* unzip_s3_files: the expansion queue
    n2,                  \* unzip_s3_files: queue entries fully processed
    namelist,            \* unzip_s3_files: members of the open archive
    m,                   \* unzip_s3_files: members of it already uploaded
    retrieved,           \* history: names retrieved from FTP in this run
    uploaded,            \* history: keys uploaded by stage 1 in this run
    downloaded,          \* history: keys stage 2 read in this run
    published,           \* history: objects stage 2 wrote in this run
    listed2,             \* history: keys in the bucket when stage 2 listed it
    staged0,             \* history: keys in the bucket when stage 1 listed it
    inp,                 \* input of a pure function under test
    out                  \* its result

vars == << ftp, bucket, local, pc, run, prevDone, prevQuiet, changed, killedAt,
           prevUploaded, cut, late, err, ls_ftp_contents, ls_ftp_daily_files,
           ls_s3_file_names, ls_get_ftp_to_s3, n1, ls_diff_unzip, n2, namelist, m,
           retrieved, uploaded, downloaded, published, listed2, staged0, inp, out >>

storeVars == << ftp, bucket, local >>
s1Vars == << ls_ftp_contents, ls_ftp_daily_files, ls_s3_file_names, ls_get_ftp_to_s3, n1 >>
s2Vars == << ls_diff_unzip, n2, namelist, m >>
histVars == << retrieved, uploaded, downloaded, published, listed2, staged0 >>
pureVars == << inp, out >>
envVars == << prevQuiet, changed, killedAt, prevUploaded, cut, late >>

NoInput == [op |-> "none"]

\* the locals and the history of a run that has not started yet
FreshRun ==
    /\ err = "none"
    /\ ls_ftp_contents = << >>
    /\ ls_ftp_daily_files = << >> /\ ls_s3_file_names = << >>
    /\ ls_get_ftp_to_s3 = << >> /\ n1 = 0
    /\ ls_diff_unzip = << >> /\ n2 = 0 /\ namelist = << >> /\ m = 0
    /\ retrieved = << >> /\ uploaded = << >> /\ downloaded = << >>
    /\ published = << >> /\ listed2 = {} /\ staged0 = {}

Init ==
    /\ ftp \in SUBSET FtpNames
    /\ bucket \in { StoreOf(o) : o \in SUBSET InitObjects }
    /\ local = EmptyStore
    /\ pc = "main" /\ run = 1 /\ prevDone = FALSE
    /\ prevQuiet = TRUE /\ changed = FALSE
    /\ killedAt = "none" /\ prevUploaded = << >> /\ cut = {} /\ late = {}
    /\ FreshRun
    /\ inp = NoInput /\ out = << >>

\* ------------------------------------------------- stage 1: get_ftp_to_s3
\* ftp_site.nlst() and the zip / daily filters
FtpNlst ==
    /\ pc = "main"
    /\ ls_ftp_contents' = ListingOf(ftp)
    /\ ls_ftp_daily_files' = DailyFiles(ListingOf(ftp))
    /\ pc' = "s1_list"
    /\ UNCHANGED << storeVars, run, prevDone, envVars, err, ls_s3_file_names, ls_get_ftp_to_s3,
                    n1, s2Vars, histVars, pureVars >>

\* get_s3_file_names(in_bucket, in_folder) and the set difference
S1ListS3 ==
    /\ pc = "s1_list"
    /\ LET r == GetS3FileNames(bucket, s3_folder_zip)
       IN  IF r.err # "none"
           THEN /\ err' = r.err
                /\ pc' = "aborted"
                /\ UNCHANGED << ls_s3_file_names, ls_get_ftp_to_s3 >>
           ELSE /\ ls_s3_file_names' = r.val
                /\ ls_get_ftp_to_s3' \in PyListOfSet(MissingSet(ls_ftp_daily_files, r.val))
                /\ pc' = "s1_loop"
                /\ err' = err
    /\ staged0' = DOMAIN bucket
    /\ UNCHANGED << storeVars, run, prevDone, envVars, ls_ftp_contents, ls_ftp_daily_files, n1,
                    s2Vars, retrieved, uploaded, downloaded, published, listed2, pureVars >>

\* the file the loop is at
each_file == ls_get_ftp_to_s3[n1 + 1]

\* ftp_site.retrbinary(f"RETR {each_file}", open(each_file, 'wb').write)
S1Retr ==
    /\ pc = "s1_loop" /\ n1 < Len(ls_get_ftp_to_s3)
    /\ each_file \in ftp
    /\ local' = Put(local, each_file, FtpBytes(each_file))
    /\ retrieved' = Append(retrieved, each_file)
    /\ pc' = "s1_upload"
    /\ UNCHANGED << ftp, bucket, run, prevDone, envVars, err, s1Vars, s2Vars, uploaded,
                    downloaded, published, listed2, staged0, pureVars >>

\* mutant: a failed retrieval is skipped and the loop goes on
S1RetrFail_Skip ==
    /\ pc = "s1_loop" /\ n1 < Len(ls_get_ftp_to_s3)
    /\ local' = Put(local, each_file, "partial")
    /\ err' = "retr"
    /\ n1' = n1 + 1
    /\ UNCHANGED << ftp, bucket, pc, run, prevDone, envVars, ls_ftp_contents, ls_ftp_daily_files,
                    ls_s3_file_names, ls_get_ftp_to_s3, s2Vars, histVars, pureVars >>

\* retrbinary raises: the file opened for writing stays behind, incomplete
S1RetrFail ==
    /\ pc = "s1_loop" /\ n1 < Len(ls_get_ftp_to_s3)
    /\ local' = Put(local, each_file, "partial")
    /\ err' = "retr"
    /\ pc' = "aborted"
    /\ UNCHANGED << ftp, bucket, run, prevDone, envVars, s1Vars, s2Vars, histVars, pureVars >>

\* mutant: the object is stored under the bare file name, outside the folder
S1Upload_NoFolder ==
    /\ pc = "s1_upload"
    /\ bucket' = Put(bucket, each_file, local[each_file])
    /\ uploaded' = Append(uploaded, each_file)
    /\ pc' = "s1_remove"
    /\ UNCHANGED << ftp, local, run, prevDone, envVars, err, s1Vars, s2Vars, retrieved,
                    downloaded, published, listed2, staged0, pureVars >>

\* s3_client.upload_file(each_file, in_bucket, in_folder + each_file)
S1Upload ==
    /\ pc = "s1_upload"
    /\ bucket' = Put(bucket, s3_folder_zip \o each_file, local[each_file])
    /\ uploaded' = Append(uploaded, s3_folder_zip \o each_file)
    /\ pc' = "s1_remove"
    /\ UNCHANGED << ftp, local, run, prevDone, envVars, err, s1Vars, s2Vars, retrieved,
                    downloaded, published, listed2, staged0, pureVars >>

\* upload_file raises
S1UploadFail ==
    /\ pc = "s1_upload"
    /\ err' = "upload"
    /\ pc' = "aborted"
    /\ UNCHANGED << storeVars, run, prevDone, envVars, s1Vars, s2Vars, histVars, pureVars >>

\* mutant: the local copy is deleted before the upload, which is then skipped
S1Remove_Early ==
    /\ pc \in { "s1_upload", "s1_remove" }
    /\ local' = Remove(local, each_file)
    /\ n1' = n1 + 1
    /\ pc' = "s1_loop"
    /\ UNCHANGED << ftp, bucket, run, prevDone, envVars, err, ls_ftp_contents,
                    ls_ftp_daily_files, ls_s3_file_names, ls_get_ftp_to_s3, s2Vars,
                    histVars, pureVars >>

\* os.remove(each_file)
S1Remove ==
    /\ pc = "s1_remove"
    /\ local' = Remove(local, each_file)
    /\ n1' = n1 + 1
    /\ pc' = "s1_loop"
    /\ UNCHANGED << ftp, bucket, run, prevDone, envVars, err, ls_ftp_contents,
                    ls_ftp_daily_files, ls_s3_file_names, ls_get_ftp_to_s3, s2Vars,
                    histVars, pureVars >>

\* os.remove raises
S1RemoveFail ==
    /\ pc = "s1_remove"
    /\ err' = "remove"
    /\ pc' = "aborted"
    /\ UNCHANGED << storeVars, run, prevDone, envVars, s1Vars, s2Vars, histVars, pureVars >>

\* mutant: get_ftp_to_s3 returns while the queue still holds names
S1Return_Early ==
    /\ pc = "s1_loop"
    /\ pc' = "s2_list"
    /\ UNCHANGED << storeVars, run, prevDone, envVars, err, s1Vars, s2Vars, histVars, pureVars >>

\* mutant: at the end of the loop the remote is listed again and daily names
\* that have appeared meanwhile are queued
S1Return_Relist ==
    /\ pc = "s1_loop" /\ n1 >= Len(ls_get_ftp_to_s3)
    /\ LET more == { x \in ftp \ ToSet(ls_ftp_contents) : IsZip(x) /\ IsDaily(x) }
       IN  IF more = {}
           THEN /\ pc' = "s2_list"
                /\ UNCHANGED << ls_ftp_contents, ls_get_ftp_to_s3 >>
           ELSE /\ pc' = pc
                /\ ls_ftp_contents' = ListingOf(ftp)
                /\ \E l \in PyListOfSet(more) : ls_get_ftp_to_s3' = ls_get_ftp_to_s3 \o l
    /\ UNCHANGED << storeVars, run, prevDone, envVars, err, ls_ftp_daily_files,
                    ls_s3_file_names, n1, s2Vars, histVars, pureVars >>

\* the for loop is exhausted (or the queue was empty): get_ftp_to_s3 returns
S1Return ==
    /\ pc = "s1_loop" /\ n1 >= Len(ls_get_ftp_to_s3)
    /\ pc' = "s2_list"
    /\ UNCHANGED << storeVars, run, prevDone, envVars, err, s1Vars, s2Vars, histVars, pureVars >>

\* ------------------------------------------------ stage 2: unzip_s3_files
\* the two get_s3_file_names calls and the set difference
S2List ==
    /\ pc = "s2_list"
    /\ LET rz == GetS3FileNames(bucket, s3_folder_zip)
           ru == GetS3FileNames(bucket, s3_folder_unzip)
       IN  IF rz.err # "none" \/ ru.err # "none"
           THEN /\ err' = (IF rz.err # "none" THEN rz.err ELSE ru.err)
                /\ pc' = "aborted"
                /\ UNCHANGED ls_diff_unzip
           ELSE /\ ls_diff_unzip' \in PyListOfSet(PendingSet(rz.val, ru.val))
                /\ pc' = "s2_loop"
                /\ err' = err
    /\ listed2' = DOMAIN bucket
    /\ UNCHANGED << storeVars, run, prevDone, envVars, s1Vars, n2, namelist, m, retrieved,
                    uploaded, downloaded, published, staged0, pureVars >>

\* the archive the loop is at, and its key
each_zipfile == ls_diff_unzip[n2 + 1]
zip_key == s3_folder_zip \o each_zipfile

\* mutant: an archive without members is refused like a corrupt one
S2Open_EmptyIsError ==
    /\ pc = "s2_loop" /\ n2 < Len(ls_diff_unzip)
    /\ zip_key \in DOMAIN bucket
    /\ downloaded' = Append(downloaded, zip_key)
    /\ IF ZipFile(bucket[zip_key]).ok /\ ZipFile(bucket[zip_key]).members # << >>
       THEN /\ namelist' = ZipFile(bucket[zip_key]).members
            /\ m' = 0
            /\ pc' = "s2_members"
            /\ err' = err
       ELSE /\ err' = "BadZipFile"
            /\ pc' = "aborted"
            /\ UNCHANGED << namelist, m >>
    /\ UNCHANGED << storeVars, run, prevDone, envVars, s1Vars, ls_diff_unzip, n2, retrieved,
                    uploaded, published, listed2, staged0, pureVars >>

\* zip_obj.get()["Body"].read() and zipfile.ZipFile(buffer)
S2Open ==
    /\ pc = "s2_loop" /\ n2 < Len(ls_diff_unzip)
    /\ IF zip_key \notin DOMAIN bucket
       THEN /\ err' = "NoSuchKey"
            /\ pc' = "aborted"
            /\ UNCHANGED << namelist, m, downloaded >>
       ELSE /\ downloaded' = Append(downloaded, zip_key)
            /\ IF ZipFile(bucket[zip_key]).ok
               THEN /\ namelist' = ZipFile(bucket[zip_key]).members
                    /\ m' = 0
                    /\ pc' = "s2_members"
                    /\ err' = err
               ELSE /\ err' = "BadZipFile"
                    /\ pc' = "aborted"
                    /\ UNCHANGED << namelist, m >>
    /\ UNCHANGED << storeVars, run, prevDone, envVars, s1Vars, ls_diff_unzip, n2, retrieved,
                    uploaded, published, listed2, staged0, pureVars >>

\* mutant: the member is stored under the archive's name as a folder
S2Publish_UnderArchive ==
    /\ pc = "s2_members" /\ m < Len(namelist)
    /\ LET member == namelist[m + 1]
           key == s3_folder_unzip \o each_zipfile \o << S_slash >> \o member.name
       IN  /\ bucket' = Put(bucket, key, member.data)
           /\ published' = Append(published,
                  [zip |-> each_zipfile, key |-> key, data |-> member.data])
    /\ m' = m + 1
    /\ UNCHANGED << ftp, local, pc, run, prevDone, envVars, err, s1Vars, ls_diff_unzip, n2,
                    namelist, retrieved, uploaded, downloaded, listed2, staged0, pureVars >>

\* upload_fileobj(z.open(each_unzip_filename), Key=in_unzipfolder + each_unzip_filename)
S2Publish ==
    /\ pc = "s2_members" /\ m < Len(namelist)
    /\ LET member == namelist[m + 1]
           key == s3_folder_unzip \o member.name
       IN  /\ bucket' = Put(bucket, key, member.data)
           /\ published' = Append(published,
                  [zip |-> each_zipfile, key |-> key, data |-> member.data])
    /\ m' = m + 1
    /\ UNCHANGED << ftp, local, pc, run, prevDone, envVars, err, s1Vars, ls_diff_unzip, n2,
                    namelist, retrieved, uploaded, downloaded, listed2, staged0, pureVars >>

\* the member loop is exhausted: print(f'Unzipped the file {each_zipfile}')
S2Unzipped ==
    /\ pc = "s2_members" /\ m >= Len(namelist)
    /\ n2' = n2 + 1
    /\ pc' = "s2_loop"
    /\ UNCHANGED << storeVars, run, prevDone, envVars, err, s1Vars, ls_diff_unzip, namelist, m,
                    histVars, pureVars >>

\* the archive loop is exhausted: unzip_s3_files returns and the script ends
S2Return ==
    /\ pc = "s2_loop" /\ n2 >= Len(ls_diff_unzip)
    /\ pc' = "done"
    /\ UNCHANGED << storeVars, run, prevDone, envVars, err, s1Vars, s2Vars, histVars, pureVars >>

\* ------------------------------------------------------------ the next run
\* the script is started again; the bucket, the remote and the working
\* directory are what the last run left
NextRun ==
    /\ pc \in { "done", "aborted", "killed" }
    /\ run < MaxRuns
    /\ run' = run + 1
    /\ prevDone' = (pc = "done")
    /\ prevQuiet' = ~changed
    /\ changed' = FALSE
    /\ killedAt' = (IF pc = "killed" THEN killedAt ELSE "none")
    /\ prevUploaded' = uploaded
    /\ cut' = cut /\ late' = late
    /\ pc' = "main"
    /\ err' = "none"
    /\ ls_ftp_contents' = << >>
    /\ ls_ftp_daily_files' = << >> /\ ls_s3_file_names' = << >>
    /\ ls_get_ftp_to_s3' = << >> /\ n1' = 0
    /\ ls_diff_unzip' = << >> /\ n2' = 0 /\ namelist' = << >> /\ m' = 0
    /\ retrieved' = << >> /\ uploaded' = << >> /\ downloaded' = << >>
    /\ published' = << >> /\ listed2' = {} /\ staged0' = {}
    /\ UNCHANGED << storeVars, pureVars >>

\* -------------------------------------------------------- the environment
\* the positions at which the script is running
Running == { "main", "s1_list", "s1_loop", "s1_upload", "s1_remove",
             "s2_list", "s2_loop", "s2_members" }

\* of the archive being expanded, a member whose name starts with options_ and
\* maps back to the archive's name is among those already uploaded
OwnMemberPublished ==
    \E j \in 1..m : /\ IsOptions(namelist[j].name)
                    /\ ReverseName(namelist[j].name) = each_zipfile

\* mutant: termination takes the objects uploaded in the run back
Terminate_Rollback ==
    /\ pc \in Running
    /\ pc' = "killed"
    /\ killedAt' = pc
    /\ bucket' = [ k \in DOMAIN bucket \ ToSet(uploaded) |-> bucket[k] ]
    /\ UNCHANGED << ftp, local, run, prevDone, prevQuiet, changed, prevUploaded, cut, late,
                    err, s1Vars, s2Vars, histVars, pureVars >>

\* the process is terminated between two calls, or inside upload_file,
\* upload_fileobj or os.remove before the call has taken effect
Terminate ==
    /\ pc \in Running
    /\ pc' = "killed"
    /\ killedAt' = pc
    /\ cut' = (IF pc = "s2_members" /\ m < Len(namelist) /\ OwnMemberPublished
               THEN cut \cup { [zip |-> each_zipfile, run |-> run] }
               ELSE cut)
    /\ UNCHANGED << storeVars, run, prevDone, prevQuiet, changed, prevUploaded, late, err,
                    s1Vars, s2Vars, histVars, pureVars >>

\* the process is terminated inside retrbinary: the file opened for writing
\* holds what had arrived
TerminateInRetr ==
    /\ pc = "s1_loop" /\ n1 < Len(ls_get_ftp_to_s3)
    /\ local' = Put(local, each_file, "partial")
    /\ pc' = "killed"
    /\ killedAt' = "retr"
    /\ UNCHANGED << ftp, bucket, run, prevDone, prevQuiet, changed, prevUploaded, cut,
                    late, err, s1Vars, s2Vars, histVars, pureVars >>

\* the provider puts a new file into the remote directory while the script runs
RemoteAppear ==
    /\ pc \in Running
    /\ \E x \in EnvNames \ ftp :
          /\ ftp' = ftp \cup { x }
          /\ late' = (IF pc = "main" THEN late
                      ELSE late \cup { [name |-> x, run |-> run] })
    /\ changed' = TRUE
    /\ UNCHANGED << bucket, local, pc, run, prevDone, prevQuiet, killedAt, prevUploaded,
                    cut, err, s1Vars, s2Vars, histVars, pureVars >>

Next ==
    \/ FtpNlst \/ S1ListS3
    \/ S1Retr \/ S1RetrFail \/ S1Upload \/ S1UploadFail \/ S1Remove \/ S1RemoveFail
    \/ S1Return
    \/ S2List \/ S2Open \/ S2Publish \/ S2Unzipped \/ S2Return
    \/ NextRun

\* runs that come to their own end, with a remote that does not change
Spec == Init /\ [][Next]_vars

\* runs that may be terminated, and a remote that gets new files meanwhile
InitEnv ==
    /\ ftp \in SUBSET EnvNames
    /\ bucket \in { StoreOf({ << s3_folder_zip, "" >> } \cup o) : o \in SUBSET EnvObjects }
    /\ local = EmptyStore
    /\ pc = "main" /\ run = 1 /\ prevDone = FALSE
    /\ prevQuiet = TRUE /\ changed = FALSE
    /\ killedAt = "none" /\ prevUploaded = << >> /\ cut = {} /\ late = {}
    /\ FreshRun
    /\ inp = NoInput /\ out = << >>

\* undisturbed runs on a remote with names of every form
InitOdd ==
    /\ ftp \in SUBSET OddNames
    /\ bucket \in { StoreOf({ << s3_folder_zip, "" >> } \cup o) : o \in SUBSET OddObjects }
    /\ local = EmptyStore
    /\ pc = "main" /\ run = 1 /\ prevDone = FALSE
    /\ prevQuiet = TRUE /\ changed = FALSE
    /\ killedAt = "none" /\ prevUploaded = << >> /\ cut = {} /\ late = {}
    /\ FreshRun
    /\ inp = NoInput /\ out = << >>

SpecOdd == InitOdd /\ [][Next]_vars

NextEnv == Next \/ Terminate \/ TerminateInRetr \/ RemoteAppear

SpecEnv == InitEnv /\ [][NextEnv]_vars

\* ------------------------------------------- the pure functions, on their own
\* all lists of at most n elements of S
ListsUpTo(S, n) == UNION { [1..k -> S] : k \in 0..n }

SuffixChars == { "_", "1", "5" }
\* the <suffix> values tried: short ones, and the date of the documented example
Suffixes == ListsUpTo(SuffixChars, MaxSuffix) \cup { D_20200115, S_us \o D_20200115 }
\* extensions of two, three and four characters
Extensions == { << "g", "z" >>, S_csv, S_txt, << "j", "s", "o", "n" >> }

\* L2<suffix>.zip
ArchiveName(suffix) == S_L2 \o suffix \o S_dotzip
\* options_<suffix>
MemberPlain(suffix) == S_options_ \o suffix
\* options<suffix>.<ext>
MemberExt(suffix, ext) == S_options \o suffix \o << "." >> \o ext

MissingInputs ==
    { [op |-> "missing", A |-> a, B |-> b] :
        a \in ListsUpTo({ F_0101, F_0102, F_0115 }, MaxList),
        b \in ListsUpTo({ F_0101, F_0102, F_0115 }, MaxList) }
PendingInputs ==
    { [op |-> "pending", staged |-> a, expanded |-> b] :
        a \in ListsUpTo({ F_0115, F_0101 }, MaxList),
        b \in ListsUpTo({ N_0115, N_0115csv, N_0101csv, F_readme }, MaxList) }
ReverseInputs ==
    { [op |-> "reverse", suffix |-> x, member |-> MemberPlain(x)] : x \in Suffixes }
    \cup
    { [op |-> "reverse", suffix |-> x, member |-> MemberExt(x, e)] :
        x \in Suffixes, e \in Extensions }

InitPure ==
    /\ ftp = {} /\ bucket = EmptyStore /\ local = EmptyStore
    /\ pc = "pure" /\ run = 1 /\ prevDone = FALSE
    /\ prevQuiet = TRUE /\ changed = FALSE
    /\ killedAt = "none" /\ prevUploaded = << >> /\ cut = {} /\ late = {}
    /\ FreshRun
    /\ inp \in MissingInputs \cup PendingInputs \cup ReverseInputs
    /\ out = << >>

\* ls_get_ftp_to_s3 = list(set(ls_ftp_daily_files) - set(ls_s3_file_names))
ApplyMissing ==
    /\ pc = "pure" /\ inp.op = "missing"
    /\ out' \in PyListOfSet(MissingSet(inp.A, inp.B))
    /\ pc' = "pure_done"
    /\ UNCHANGED << storeVars, run, prevDone, envVars, err, s1Vars, s2Vars, histVars, inp >>

\* ls_diff_unzip = list(set(ls_s3_zip_daily) - set(ls_conform_unzip))
ApplyPending ==
    /\ pc = "pure" /\ inp.op = "pending"
    /\ out' \in PyListOfSet(PendingSet(inp.staged, inp.expanded))
    /\ pc' = "pure_done"
    /\ UNCHANGED << storeVars, run, prevDone, envVars, err, s1Vars, s2Vars, histVars, inp >>

\* f'L2{x[7:-3]}zip'
ApplyReverse ==
    /\ pc = "pure" /\ inp.op = "reverse"
    /\ out' = << ReverseName(inp.member) >>
    /\ pc' = "pure_done"
    /\ UNCHANGED << storeVars, run, prevDone, envVars, err, s1Vars, s2Vars, histVars, inp >>

NextPure == ApplyMissing \/ ApplyPending \/ ApplyReverse

SpecPure == InitPure /\ [][NextPure]_vars

\* ===================================================================== claims
\* x occurs in the list l
InList(x, l) == \E i \in 1..Len(l) : l[i] = x
\* no element occurs twice in the list l
NoDup(l) == \A i, j \in 1..Len(l) : l[i] = l[j] => i = j
PureDone(op) == pc = "pure_done" /\ inp.op = op

\* C3: the stage-1 queue built from the lists A (eligible remote names) and B
\* (staged names) holds exactly the names of A that do not occur in B, each of
\* them once, and it is empty when every name of A occurs in B.
C3_QueueIsDifference ==
    PureDone("missing") =>
        /\ \A i \in 1..Len(out) : InList(out[i], inp.A)
        /\ \A i \in 1..Len(inp.A) : InList(inp.A[i], out) <=> ~InList(inp.A[i], inp.B)
        /\ NoDup(out)
        /\ (\A i \in 1..Len(inp.A) : InList(inp.A[i], inp.B)) => out = << >>

C3_Witness ==
    /\ PureDone("missing")
    /\ inp.A = << F_0101, F_0102 >> /\ inp.B = << F_0102, F_0115 >>
    /\ out = << F_0101 >>

\* the expanded names of list l that count as evidence, written out: the name
\* starts with options_ and names archive a when L2, its characters from the 8th
\* to the 4th last, and zip are put together
MapsBackTo(x, a) ==
    /\ Len(x) >= 8 /\ SubSeq(x, 1, 8) = S_options_
    /\ a = S_L2 \o (IF Len(x) - 3 >= 8 THEN SubSeq(x, 8, Len(x) - 3) ELSE << >>) \o S_zip

\* C5 as stated: pendingExpansion is staged minus the archive names the
\* conforming expanded names map back to; with no expanded name every staged
\* archive is pending; L2_20200115.zip is not pending once options_20200115 is
\* among the expanded names.
C5_AsStated ==
    PureDone("pending") =>
        /\ \A i \in 1..Len(out) : InList(out[i], inp.staged)
        /\ \A i \in 1..Len(inp.staged) :
              InList(inp.staged[i], out) <=>
                  ~\E j \in 1..Len(inp.expanded) : MapsBackTo(inp.expanded[j], inp.staged[i])
        /\ inp.expanded = << >> => ToSet(out) = ToSet(inp.staged)
        /\ InList(N_0115, inp.expanded) => ~InList(F_0115, out)

\* C5 amended: as above, but the member name that takes L2_20200115.zip out of
\* the pending set is options_20200115.csv; options_20200115 alone leaves it
\* pending.
C5_PendingExpansion ==
    PureDone("pending") =>
        /\ \A i \in 1..Len(out) : InList(out[i], inp.staged)
        /\ \A i \in 1..Len(inp.staged) :
              InList(inp.staged[i], out) <=>
                  ~\E j \in 1..Len(inp.expanded) : MapsBackTo(inp.expanded[j], inp.staged[i])
        /\ NoDup(out)
        /\ inp.expanded = << >> => ToSet(out) = ToSet(inp.staged)
        /\ InList(N_0115csv, inp.expanded) => ~InList(F_0115, out)
        /\ (InList(F_0115, inp.staged) /\ ToSet(inp.expanded) = { N_0115 })
              => InList(F_0115, out)

C5_Witness ==
    /\ PureDone("pending")
    /\ inp.staged = << F_0115, F_0101 >> /\ inp.expanded = << N_0115, N_0115csv >>
    /\ out = << F_0101 >>

\* C6 as stated: the member name options_<suffix> derived from the archive
\* name L2<suffix>.zip is mapped back to L2<suffix>.zip.
C6_AsStated ==
    (PureDone("reverse") /\ inp.member = MemberPlain(inp.suffix))
        => out = << ArchiveName(inp.suffix) >>

\* C6 amended: the member name options<suffix>.<ext> with an extension of
\* three characters is mapped back to L2<suffix>.zip.
C6_RoundTrip ==
    (PureDone("reverse")
        /\ \E e \in Extensions : Len(e) = 3 /\ inp.member = MemberExt(inp.suffix, e))
        => out = << ArchiveName(inp.suffix) >>

C6_Witness ==
    /\ PureDone("reverse")
    /\ inp.suffix = S_us \o D_20200115 /\ inp.member = N_0115csv
    /\ out = << F_0115 >>

\* ------------------------------------------------------- claims on the runs
Stage1Pcs == { "main", "s1_list", "s1_loop", "s1_upload", "s1_remove" }
Stage2Pcs == { "s2_list", "s2_loop", "s2_members" }
\* get_ftp_to_s3 has returned in this run
Stage1Returned ==
    \/ pc \in Stage2Pcs \cup { "done" }
    \/ pc = "aborted" /\ err \in { "BadZipFile", "NoSuchKey" }
\* the previous run completed both stages
SecondRun == run > 1 /\ prevDone /\ prevQuiet /\ ~changed

\* C1: in a run that follows a run which completed both stages, nothing is
\* retrieved from FTP and nothing is uploaded to the staging prefix.
C1_Stage1Idempotent ==
    SecondRun =>
        /\ retrieved = << >> /\ uploaded = << >>
        /\ ls_get_ftp_to_s3 = << >>
        /\ pc \notin { "s1_upload", "s1_remove" }

\* a second run has ended after a first run that staged L2_20200102.zip
C1_Witness ==
    /\ SecondRun /\ pc = "done"
    /\ F_0102 \in ftp /\ F_0101 \in ftp
    /\ (s3_folder_zip \o F_0102) \in DOMAIN bucket
    /\ retrieved = << >>

\* the archive stored under key k holds a member named options<middle>.<ext>,
\* <ext> of three characters, where the archive's name is L2<middle>.zip
HasOwnMember(k) ==
    LET a == SubSeq(k, Len(s3_folder_zip) + 1, Len(k))
        z == ZipFile(bucket[k])
    IN  /\ z.ok
        /\ \E i \in 1..Len(z.members) : MapsBackTo(z.members[i].name, a)
\* the keys of the staged archives
StagedKeys == { k \in DOMAIN bucket : StartsWith(k, s3_folder_zip) /\ k # s3_folder_zip }
\* the names published under the publish prefix
PublishedNames ==
    { SubSeq(k, Len(s3_folder_unzip) + 1, Len(k)) :
        k \in { x \in DOMAIN bucket : StartsWith(x, s3_folder_unzip) } }

\* C2 as stated: once both stages have completed, every staged archive is
\* mapped back to by a published name, and the following run downloads no
\* archive and publishes nothing.
C2_AsStated ==
    /\ pc = "done" =>
          \A k \in StagedKeys : \E x \in PublishedNames :
              MapsBackTo(x, SubSeq(k, Len(s3_folder_zip) + 1, Len(k)))
    /\ SecondRun => (downloaded = << >> /\ published = << >>)

\* C2 amended: once both stages have completed, every staged archive that has
\* a member of its own name pattern is mapped back to by a published name, and
\* the following run neither downloads such an archive nor publishes from it.
C2_Stage2Idempotent ==
    /\ pc = "done" =>
          \A k \in StagedKeys : HasOwnMember(k) =>
              \E x \in PublishedNames :
                  MapsBackTo(x, SubSeq(k, Len(s3_folder_zip) + 1, Len(k)))
    /\ SecondRun =>
          /\ \A i \in 1..Len(downloaded) : ~HasOwnMember(downloaded[i])
          /\ \A i \in 1..Len(ls_diff_unzip) : ~HasOwnMember(s3_folder_zip \o ls_diff_unzip[i])
          /\ \A i \in 1..Len(published) : ~HasOwnMember(s3_folder_zip \o published[i].zip)

\* a second run ended; it expanded L2_20200102.zip again and left L2_20200101.zip alone
C2_Witness ==
    /\ SecondRun /\ pc = "done"
    /\ downloaded = << s3_folder_zip \o F_0102 >>
    /\ Len(published) = 2
    /\ (s3_folder_zip \o F_0101) \in DOMAIN bucket
    /\ F_0101 \in ftp

\* the name has no '_' as its 8th character, written out
NoSeparator(x) == Len(x) < 8 \/ x[8] # "_"
\* the names of the remote listing that are daily zip files and had no object
\* under the staging prefix when stage 1 listed the bucket
DailyNotStaged ==
    { x \in ToSet(ls_ftp_contents) :
        /\ EndsWith(x, S_dotzip)
        /\ NoSeparator(x)
        /\ (s3_folder_zip \o x) \notin staged0 }

\* C4: every name retrieved and every key uploaded by stage 1 belongs to a
\* listed daily zip that was not staged, none is handled twice, no monthly
\* name is ever transferred, and when stage 1 returns each such name has been
\* transferred once; for the listing L2_20200101.zip, L2_20200102.zip,
\* L2_2020_January.zip with nothing staged that is 2 transfers.
C4_OnlyDailyTransferred ==
    /\ \A i \in 1..Len(retrieved) : retrieved[i] \in DailyNotStaged
    /\ \A i \in 1..Len(uploaded) :
          \E x \in DailyNotStaged : uploaded[i] = s3_folder_zip \o x
    /\ NoDup(retrieved) /\ NoDup(uploaded)
    /\ ~InList(F_Jan, retrieved) /\ ~InList(s3_folder_zip \o F_Jan, uploaded)
    /\ (s3_folder_zip \o F_Jan) \notin DOMAIN bucket
    /\ Stage1Returned =>
          /\ ToSet(retrieved) = DailyNotStaged
          /\ ToSet(uploaded) = { s3_folder_zip \o x : x \in DailyNotStaged }
          /\ (ToSet(ls_ftp_contents) = { F_0101, F_0102, F_Jan }
                /\ StagedKeys \cap staged0 = {})
                => (Len(retrieved) = 2 /\ Len(uploaded) = 2)

\* scenario A has run to the end from a bucket that held only the folder marker
C4_Witness ==
    /\ run = 1 /\ pc = "done"
    /\ ToSet(ls_ftp_contents) = { F_0101, F_0102, F_Jan }
    /\ staged0 = { s3_folder_zip }
    /\ Len(uploaded) = 2

\* the archives of the expansion queue that are valid zip files
ValidPending ==
    { i \in 1..Len(ls_diff_unzip) :
        /\ (s3_folder_zip \o ls_diff_unzip[i]) \in DOMAIN bucket
        /\ ZipFile(bucket[s3_folder_zip \o ls_diff_unzip[i]]).ok }
\* the expansion queue holds a staged object that is not a zip file
CorruptPending ==
    \E i \in 1..Len(ls_diff_unzip) :
        /\ (s3_folder_zip \o ls_diff_unzip[i]) \in DOMAIN bucket
        /\ ~ZipFile(bucket[s3_folder_zip \o ls_diff_unzip[i]]).ok

\* C7 as stated: when the expansion queue holds a corrupt archive and valid
\* ones, the run ends normally with every member of every valid archive
\* published, whatever the order of the queue.
C7_FailureIsolation ==
    (pc \in { "done", "aborted" } /\ CorruptPending /\ ValidPending # {}) =>
        /\ pc = "done"
        /\ \A i \in ValidPending :
              LET z == ZipFile(bucket[s3_folder_zip \o ls_diff_unzip[i]])
              IN  \A j \in 1..Len(z.members) :
                    \E p \in 1..Len(published) :
                        /\ published[p].zip = ls_diff_unzip[i]
                        /\ published[p].key = s3_folder_unzip \o z.members[j].name

\* C8: when a retrieval or an upload of stage 1 fails the run is over: the
\* uploads of the run are those of the queue entries before the failing one,
\* in order, nothing was uploaded for the failing name or a later one, stage 2
\* has neither listed, read nor published anything, and each file uploaded
\* before the failure is in the bucket with the bytes the remote served.
C8_Stage1FailFast ==
    err \in { "retr", "upload" } =>
        /\ pc = "aborted"
        /\ n1 < Len(ls_get_ftp_to_s3)
        /\ uploaded = [ i \in 1..n1 |-> s3_folder_zip \o ls_get_ftp_to_s3[i] ]
        /\ \A i \in (n1 + 1)..Len(ls_get_ftp_to_s3) :
              (s3_folder_zip \o ls_get_ftp_to_s3[i]) \notin DOMAIN bucket
        /\ \A i \in 1..n1 :
              /\ (s3_folder_zip \o ls_get_ftp_to_s3[i]) \in DOMAIN bucket
              /\ bucket[s3_folder_zip \o ls_get_ftp_to_s3[i]] = FtpBytes(ls_get_ftp_to_s3[i])
        /\ Len(retrieved) = (IF err = "retr" THEN n1 ELSE n1 + 1)
        /\ listed2 = {} /\ ls_diff_unzip = << >>
        /\ downloaded = << >> /\ published = << >>

\* the upload of the second file of the queue failed after the first was staged
C8_Witness ==
    /\ pc = "aborted" /\ err = "upload"
    /\ n1 = 1 /\ Len(ls_get_ftp_to_s3) = 2
    /\ Len(uploaded) = 1 /\ Len(retrieved) = 2
    /\ uploaded[1] \in DOMAIN bucket

\* what the expansion of the archive named a publishes, in order
ExpectedPublished(a) ==
    LET z == ZipFile(bucket[s3_folder_zip \o a])
    IN  [ j \in 1..Len(z.members) |->
            [zip |-> a, key |-> s3_folder_unzip \o z.members[j].name,
             data |-> z.members[j].data] ]
\* the entries of the publish log that belong to the archive named a
PublishedOf(a) == LET Of(e) == e.zip = a IN SelectSeq(published, Of)

\* C9: an archive whose expansion has finished has published one object per
\* member, in member order, under publish prefix + member name with the
\* member's bytes, and nothing else; the archive being expanded has published
\* its first m members so; every object written by stage 2 is in the bucket
\* under its key; L2_20200102.zip gives exactly options_a.txt and options_b.txt,
\* which hold the members' bytes when its expansion finishes.
C9_ExpandPublishesMembers ==
    /\ \A i \in 1..n2 : PublishedOf(ls_diff_unzip[i]) = ExpectedPublished(ls_diff_unzip[i])
    /\ pc = "s2_members" =>
          PublishedOf(each_zipfile) = SubSeq(ExpectedPublished(each_zipfile), 1, m)
    /\ \A p \in 1..Len(published) :
          /\ \E i \in 1..Len(ls_diff_unzip) : published[p].zip = ls_diff_unzip[i]
          /\ published[p].key \in DOMAIN bucket
    /\ pc \in { "s2_loop", "s2_members", "done" } =>
          DOMAIN bucket \ listed2 \subseteq { published[p].key : p \in 1..Len(published) }
    /\ \A i \in 1..n2 : ls_diff_unzip[i] = F_0102 =>
          /\ PublishedOf(F_0102) =
                << [zip |-> F_0102, key |-> s3_folder_unzip \o N_a, data |-> "ca"],
                   [zip |-> F_0102, key |-> s3_folder_unzip \o N_b, data |-> "cb"] >>
          /\ (i = n2 /\ pc = "s2_loop") =>
                /\ bucket[s3_folder_unzip \o N_a] = "ca"
                /\ bucket[s3_folder_unzip \o N_b] = "cb"

\* the expansion of L2_20200102.zip has just finished
C9_Witness ==
    /\ pc = "s2_loop" /\ n2 >= 1
    /\ ls_diff_unzip[n2] = F_0102
    /\ Len(PublishedOf(F_0102)) = 2
    /\ (s3_folder_unzip \o N_b) \in DOMAIN bucket

\* C10: whenever stage 2 has listed, read or published anything in a run,
\* stage 1 of that run is over with every queue entry retrieved and uploaded,
\* and every archive stage 2 has read is an object that was in the bucket
\* under the staging prefix, complete, when stage 2 took its listing.
C10_StageOrdering ==
    /\ (pc \in Stage2Pcs \cup { "done" } \/ listed2 # {}
            \/ downloaded # << >> \/ published # << >>) =>
          /\ pc \notin Stage1Pcs
          /\ n1 = Len(ls_get_ftp_to_s3)
          /\ retrieved = ls_get_ftp_to_s3
          /\ uploaded = [ i \in 1..Len(ls_get_ftp_to_s3) |->
                            s3_folder_zip \o ls_get_ftp_to_s3[i] ]
          /\ \A i \in 1..Len(uploaded) : uploaded[i] \in DOMAIN bucket
    /\ \A i \in 1..Len(downloaded) :
          /\ downloaded[i] \in listed2
          /\ StartsWith(downloaded[i], s3_folder_zip)
          /\ bucket[downloaded[i]] # "partial"
    /\ \A i \in 1..Len(uploaded) : uploaded[i] \in listed2 \/ listed2 = {}

\* stage 2 is publishing from an archive that stage 1 uploaded in the same run
C10_Witness ==
    /\ pc = "s2_members" /\ m >= 1
    /\ uploaded # << >>
    /\ InList(zip_key, uploaded)
    /\ InList(zip_key, downloaded)

\* C11: inside stage 1 each file goes through retrieve, upload, cleanup, one
\* file at a time: when the upload starts the local copy holds the whole file
\* and nothing was uploaded for it yet, when the cleanup starts the object is
\* in the bucket with those bytes and the local copy is still there, and the
\* loop is at the next file only when the local copies of all files before it
\* are gone and each of them was retrieved once and uploaded once, in order.
C11_PerFileOrdering ==
    /\ \A i \in 1..Len(uploaded) :
          /\ i <= Len(retrieved)
          /\ uploaded[i] = s3_folder_zip \o retrieved[i]
          /\ bucket[uploaded[i]] = FtpBytes(retrieved[i])
    /\ \A i \in 1..Len(retrieved) : retrieved[i] = ls_get_ftp_to_s3[i]
    /\ pc = "s1_loop" =>
          /\ Len(retrieved) = n1 /\ Len(uploaded) = n1
          /\ \A i \in 1..n1 : ls_get_ftp_to_s3[i] \notin DOMAIN local
    /\ pc = "s1_upload" =>
          /\ Len(retrieved) = n1 + 1 /\ Len(uploaded) = n1
          /\ each_file \in DOMAIN local
          /\ local[each_file] = FtpBytes(each_file)
          /\ \A i \in 1..n1 : ls_get_ftp_to_s3[i] \notin DOMAIN local
    /\ pc = "s1_remove" =>
          /\ Len(retrieved) = n1 + 1 /\ Len(uploaded) = n1 + 1
          /\ each_file \in DOMAIN local
          /\ (s3_folder_zip \o each_file) \in DOMAIN bucket
          /\ bucket[s3_folder_zip \o each_file] = local[each_file]

\* the second file of the queue is about to be cleaned up after the first one
\* went through all three steps
C11_Witness ==
    /\ pc = "s1_remove" /\ n1 = 1
    /\ Len(retrieved) = 2 /\ Len(uploaded) = 2
    /\ ls_get_ftp_to_s3[1] \notin DOMAIN local
    /\ each_file \in DOMAIN local

\* C12: when a retrieval or an upload of stage 1 has failed, the run leaves
\* nothing of the failing file behind: no object under staging prefix + name
\* and no local copy of it, whole or incomplete.
C12_NoPartialArtifacts ==
    err \in { "retr", "upload" } =>
        /\ (s3_folder_zip \o each_file) \notin DOMAIN bucket
        /\ each_file \notin DOMAIN local

\* C13: a failing os.remove after a successful upload does not end the run:
\* the script is not stopped by it.
C13_CleanupNotFatal ==
    err = "remove" => pc # "aborted"

\* C14: no step of any run deletes an object of the bucket or changes its
\* bytes, and every object stage 1 or stage 2 writes goes under a key that
\* was not in the bucket before the write.
C14_AppendOnly ==
    [][ /\ \A k \in DOMAIN bucket : k \in DOMAIN bucket' /\ bucket'[k] = bucket[k]
        /\ Len(uploaded') > Len(uploaded) =>
              uploaded'[Len(uploaded')] \notin DOMAIN bucket
        /\ Len(published') > Len(published) =>
              published'[Len(published')].key \notin DOMAIN bucket ]_vars

\* a name of the provider's form: L2_ first, at least 8 characters, .zip last
ConformingName(x) ==
    /\ IsZip(x) /\ Len(x) >= 8
    /\ StartsWith(x, S_L2 \o S_us)

\* C15: a listed name that is neither daily nor monthly by the provider's
\* form, such as the short name a.zip, is in no daily list, is never retrieved
\* and gets no object under the staging prefix.
C15_NonConformingExcluded ==
    /\ \A i \in 1..Len(ls_ftp_daily_files) : ConformingName(ls_ftp_daily_files[i])
    /\ \A i \in 1..Len(retrieved) : ConformingName(retrieved[i])
    /\ \A i \in 1..Len(uploaded) : uploaded[i] # s3_folder_zip \o F_short

\* the expansion of the archive c.zip was cut short in an earlier run
CutEarlier(c) == c \in cut /\ c.run < run

\* C16: once a run was terminated while it expanded an archive, after a
\* member named options_... that maps back to the archive was published and
\* before the last member was, no later run has the archive in its expansion
\* queue, reads it, or publishes a member of it.
C16_PartialExpansionGap ==
    \A c \in cut :
        c.run < run =>
            /\ ~InList(c.zip, ls_diff_unzip)
            /\ ~InList(s3_folder_zip \o c.zip, downloaded)
            /\ PublishedOf(c.zip) = << >>

\* a later run has completed both stages and options_a.txt, the second member
\* of the archive that was cut short, is still not published
C16_Witness ==
    /\ pc = "done" /\ listed2 # {}
    /\ CutEarlier([zip |-> F_0101, run |-> 1])
    /\ (s3_folder_zip \o F_0101) \in DOMAIN bucket
    /\ (s3_folder_unzip \o N_0101csv) \in DOMAIN bucket
    /\ (s3_folder_unzip \o N_a) \notin DOMAIN bucket

\* the object under key k is a staged archive without members
IsEmptyArchiveKey(k) ==
    /\ k \in DOMAIN bucket /\ bucket[k] = "zEmpty"
    /\ StartsWith(k, s3_folder_zip) /\ NotFolder(k)
\* the name get_s3_file_names gives for a key right under the staging prefix
StagedName(k) == SubSeq(k, Len(s3_folder_zip) + 1, Len(k))

\* C17: a staged archive without members is in the expansion queue of every
\* run whose stage 2 has listed the bucket with it; opening it raises no
\* error, its member list is empty, and its expansion publishes nothing.
C17_EmptyArchive ==
    /\ pc \in { "s2_loop", "s2_members", "done" } =>
          \A k \in listed2 :
              IsEmptyArchiveKey(k) => InList(StagedName(k), ls_diff_unzip)
    /\ \A i \in 1..Len(ls_diff_unzip) :
          IsEmptyArchiveKey(s3_folder_zip \o ls_diff_unzip[i]) =>
              /\ PublishedOf(ls_diff_unzip[i]) = << >>
              /\ i <= n2 => InList(s3_folder_zip \o ls_diff_unzip[i], downloaded)
    /\ (pc = "s2_members" /\ IsEmptyArchiveKey(zip_key)) =>
          namelist = << >> /\ m = 0 /\ err = "none"
    /\ (pc = "aborted" /\ err = "BadZipFile") => ~IsEmptyArchiveKey(zip_key)

\* the run after a completed run has expanded the empty archive
\* L2_20191231.zip once more and has completed as well
C17_Witness ==
    /\ run > 1 /\ prevDone /\ pc = "done"
    /\ IsEmptyArchiveKey(s3_folder_zip \o F_1231)
    /\ InList(F_1231, ls_diff_unzip)
    /\ InList(s3_folder_zip \o F_1231, downloaded)
    /\ published = << >>

\* the positions of the transfer loop at which a run can be terminated
LoopKills == { "s1_loop", "retr", "s1_upload", "s1_remove" }
\* this run was not terminated, the one before it was, inside the transfer
\* loop, and the remote has been the same since that run started
AfterLoopKill ==
    /\ run > 1 /\ pc # "killed"
    /\ killedAt \in LoopKills
    /\ prevQuiet /\ ~changed
\* daily names of the remote with no object under the staging prefix when
\* stage 1 listed the bucket
StillMissing ==
    { x \in ftp : IsZip(x) /\ IsDaily(x) /\ (s3_folder_zip \o x) \notin staged0 }

\* C18: in an undisturbed run that follows a run terminated inside the
\* transfer loop, with the remote unchanged, the objects the terminated run
\* uploaded are still in the bucket with the bytes the remote served, the
\* queue holds exactly the daily names still missing from the staging prefix,
\* none of the names uploaded before is in the queue or retrieved again, and
\* when stage 1 returns exactly the missing names have been transferred and
\* every daily name of the remote is staged.
C18_SafeRerun ==
    AfterLoopKill =>
        /\ \A i \in 1..Len(prevUploaded) :
              /\ prevUploaded[i] \in DOMAIN bucket
              /\ bucket[prevUploaded[i]] = FtpBytes(StagedName(prevUploaded[i]))
              /\ ~InList(StagedName(prevUploaded[i]), ls_get_ftp_to_s3)
              /\ ~InList(StagedName(prevUploaded[i]), retrieved)
              /\ ~InList(prevUploaded[i], uploaded)
        /\ (pc \notin { "main", "s1_list" } /\ err # "KeyError") =>
              /\ ToSet(ls_get_ftp_to_s3) = StillMissing
              /\ NoDup(ls_get_ftp_to_s3)
        /\ Stage1Returned =>
              /\ ToSet(retrieved) = StillMissing /\ NoDup(retrieved)
              /\ \A x \in ftp : (IsZip(x) /\ IsDaily(x)) =>
                    /\ (s3_folder_zip \o x) \in DOMAIN bucket
                    /\ bucket[s3_folder_zip \o x] = FtpBytes(x)

\* the first run was terminated before the cleanup of the first of two files,
\* the second run has transferred the other file and completed
C18_Witness ==
    /\ AfterLoopKill /\ pc = "done"
    /\ killedAt = "s1_remove"
    /\ Len(prevUploaded) = 1 /\ Len(retrieved) = 1
    /\ StagedName(prevUploaded[1]) # retrieved[1]
    /\ StagedName(prevUploaded[1]) \in DOMAIN local

\* nlst() of the current run has returned
NlstDone == pc # "main" /\ ~(pc = "killed" /\ killedAt = "main")

\* C19: a name that appeared on the remote after nlst() of the current run is
\* not in the run's listing, daily list or queue and is neither retrieved nor
\* uploaded in it; the next run has it in its listing, and when stage 1 of
\* the next run has returned, that name, if it had no object under the staging
\* prefix, has been retrieved and uploaded by it and is staged with the bytes
\* the remote serves.
C19_ListingSnapshot ==
    \A l \in late :
        /\ l.run = run =>
              /\ l.name \in ftp
              /\ ~InList(l.name, ls_ftp_contents)
              /\ ~InList(l.name, ls_ftp_daily_files)
              /\ ~InList(l.name, ls_get_ftp_to_s3)
              /\ ~InList(l.name, retrieved)
              /\ ~InList(s3_folder_zip \o l.name, uploaded)
        /\ (l.run = run - 1 /\ NlstDone) => InList(l.name, ls_ftp_contents)
        /\ (l.run = run - 1 /\ Stage1Returned) =>
              IF (s3_folder_zip \o l.name) \in staged0
              THEN ~InList(l.name, retrieved)
              ELSE /\ InList(l.name, retrieved)
                   /\ InList(s3_folder_zip \o l.name, uploaded)
                   /\ bucket[s3_folder_zip \o l.name] = FtpBytes(l.name)

\* L2_20200102.zip appeared during the transfer loop of the first run, which
\* completed without it; the second run has transferred it
C19_Witness ==
    /\ run = 2 /\ prevDone /\ pc = "done"
    /\ [name |-> F_0102, run |-> 1] \in late
    /\ retrieved = << F_0102 >>
    /\ prevUploaded = << s3_folder_zip \o F_0101 >>

\* the object under key k, right under the staging prefix, is a valid archive
\* with no member named options<middle>.<ext> of the archive's own <middle>
NoEvidenceArchive(k) ==
    /\ k \in DOMAIN bucket
    /\ StartsWith(k, s3_folder_zip) /\ NotFolder(k)
    /\ Len(PySplit(k, S_slash)) = 2
    /\ ZipFile(bucket[k]).ok
    /\ ~HasOwnMember(k)

\* C20: a staged valid archive none of whose members starts with options_ and
\* maps back to the archive's name is in the expansion queue of every run
\* whose stage 2 has listed the bucket with it, however often it has been
\* expanded, and a run that has finished its expansion has read it and
\* published every one of its members, in order.
C20_OnlyOptionsEvidence ==
    /\ pc \in { "s2_loop", "s2_members", "done" } =>
          \A k \in listed2 :
              NoEvidenceArchive(k) => InList(StagedName(k), ls_diff_unzip)
    /\ \A i \in 1..n2 :
          NoEvidenceArchive(s3_folder_zip \o ls_diff_unzip[i]) =>
              /\ InList(s3_folder_zip \o ls_diff_unzip[i], downloaded)
              /\ PublishedOf(ls_diff_unzip[i]) = ExpectedPublished(ls_diff_unzip[i])

\* the run after a completed run has published notes.txt of L2_20200115.zip
\* and both members of L2_20200102.zip again, over the objects it had listed
C20_Witness ==
    /\ run > 1 /\ prevDone /\ pc = "done"
    /\ (s3_folder_unzip \o N_notes) \in listed2
    /\ (s3_folder_unzip \o N_b) \in listed2
    /\ Len(PublishedOf(F_0115)) = 1
    /\ Len(PublishedOf(F_0102)) = 2
    /\ retrieved = << >>

====
